---- MODULE Spec2Model ----
(***************************************************************************)
(* Telegram-blockpost-bot: the user store (UsersHandler.py), the message   *)
(* and command handlers and the polling supervisor (BotHandler.py).        *)
(*                                                                         *)
(* A string is a sequence of one-character (or opaque) tokens, so that     *)
(* str.format, str.replace, str.strip and int() are computed, not assumed. *)
(* The users database is the list of profile records kept in the JSON file.*)
(***************************************************************************)
EXTENDS Integers, Sequences, FiniteSets, TLC

VARIABLES
    store,      \* content of config["users_database"]: a list of profiles
    config,     \* the configuration values the handlers read
    tasks,      \* the handler coroutines in flight, one per dispatcher slot
    sup,        \* where start_bot is (BotHandler.py:78-150)
    flag,       \* self._restart_requested_flag
    stopping,   \* self._event_loop.stop() was called on the running loop
    threads,    \* the send_message_after_restart threads
    caught      \* the exception start_bot caught in this round of its loop

vars == <<store, config, tasks, sup, flag, stopping, threads, caught>>

----------------------------------------------------------------------------
(* Bounds of the model *)

\* config["user_max_messages"]
UserMaxMessages == 1

\* the model stops counting a user's text messages one past the quota
MaxCount == UserMaxMessages + 1

\* chat ids that talk to the bot or are named in a command
Ids == {1, 2, 3}
\* dispatcher slots: handler coroutines that can be in flight together
TaskIds == {1, 2}
\* send_message_after_restart threads alive at the same time
ThreadIds == {1}

----------------------------------------------------------------------------
(* Strings *)

LF == "LF"
TAB == "TAB"
BS == "\\"

\* str(id_) of a small non-negative integer
Str(n) == <<ToString(n)>>

\* text.replace(old2, new1) for a two-character old and one-character new
RECURSIVE Replace2(_, _, _, _)
Replace2(s, a, b, new) ==
    IF Len(s) < 2 THEN s
    ELSE IF s[1] = a /\ s[2] = b
         THEN <<new>> \o Replace2(SubSeq(s, 3, Len(s)), a, b, new)
         ELSE <<s[1]>> \o Replace2(Tail(s), a, b, new)

\* text.replace("\\n", "\n").replace("\\t", "\t")
Expand(text) == Replace2(Replace2(text, BS, "n", LF), BS, "t", TAB)

IsSpace(c) == c \in {" ", LF, TAB}

RECURSIVE LStrip(_)
LStrip(s) == IF s # <<>> /\ IsSpace(s[1]) THEN LStrip(Tail(s)) ELSE s

RECURSIVE RStrip(_)
RStrip(s) ==
    IF s # <<>> /\ IsSpace(s[Len(s)]) THEN RStrip(SubSeq(s, 1, Len(s) - 1)) ELSE s

\* str.strip()
Strip(s) == RStrip(LStrip(s))

Digits == {"0", "1", "2", "3", "4", "5", "6", "7", "8", "9"}

DigitVal(c) ==
    CASE c = "0" -> 0 [] c = "1" -> 1 [] c = "2" -> 2 [] c = "3" -> 3
      [] c = "4" -> 4 [] c = "5" -> 5 [] c = "6" -> 6 [] c = "7" -> 7
      [] c = "8" -> 8 [] c = "9" -> 9

RECURSIVE DigitsVal(_)
DigitsVal(s) ==
    IF s = <<>> THEN 0 ELSE 10 * DigitsVal(SubSeq(s, 1, Len(s) - 1)) + DigitVal(s[Len(s)])

AllDigits(s) == s # <<>> /\ \A i \in 1..Len(s) : s[i] \in Digits

\* int(str(arg).strip()): [ok |-> TRUE, val |-> n], or ok = FALSE when int() raises
\* mutant: int() takes whatever it is given for the number 0
ParseIntLenient(arg) == [ok |-> TRUE, val |-> 0]

ParseInt(arg) ==
    LET s == Strip(arg)
        signed == s # <<>> /\ s[1] \in {"+", "-"}
        body == IF signed THEN Tail(s) ELSE s
    IN  IF AllDigits(body)
        THEN [ok |-> TRUE,
              val |-> IF signed /\ s[1] = "-" THEN 0 - DigitsVal(body) ELSE DigitsVal(body)]
        ELSE [ok |-> FALSE, val |-> 0]

----------------------------------------------------------------------------
(* UsersHandler.py *)

\* the call sites of read_users, so that a failed read can be placed at one
SiteGetSender == 1      \* get_user_by_id, from _user_check_get (BotHandler.py:437)
SiteNewSender == 2      \* save_user, from _create_user of the sender
SiteSaveUsername == 3   \* save_user at BotHandler.py:442
SiteSaveFullName == 4   \* save_user at BotHandler.py:445
SiteSaveCounter == 5    \* save_user at BotHandler.py:177
SiteList == 6           \* read_users at BotHandler.py:185 and :322
SiteGetTarget == 7      \* get_user_by_id at BotHandler.py:242 and :289
SiteNewTarget == 8      \* save_user, from _create_user of the target
SiteSaveTarget == 9     \* save_user at BotHandler.py:248 and :295
Sites == 1..9

\* JSONReaderWriter.load_json gave None at the sites in F: read_users gives []
read_users(st, site, F) == IF site \in F THEN <<>> ELSE st

\* mutant: the search for the id never finds it
IndexOfIdNever(users, id) == 0

\* the first index whose record has this id, 0 for the code's -1
IndexOfId(users, id) ==
    IF \E i \in 1..Len(users) : users[i]["id"] = id
    THEN CHOOSE i \in 1..Len(users) :
            /\ users[i]["id"] = id
            /\ \A j \in 1..(i - 1) : users[j]["id"] # id
    ELSE 0

\* mutant: the record found is kept as it was, the update is lost
MergeKeysLost(old, user_data) == old

\* users[user_index][new_key] = user_data[new_key] for every key of user_data
MergeKeys(old, user_data) ==
    [k \in (DOMAIN old) \cup (DOMAIN user_data) |->
        IF k \in DOMAIN user_data THEN user_data[k] ELSE old[k]]

\* mutant: the record is appended without looking for its id
SaveUserAppends(st, user_data, site, F) == Append(read_users(st, site, F), user_data)

\* the list save_user writes back with save_json
save_user(st, user_data, site, F) ==
    LET users == read_users(st, site, F)
        user_index == IndexOfId(users, user_data["id"])
    IN  IF user_index > 0
        THEN [users EXCEPT ![user_index] = MergeKeys(users[user_index], user_data)]
        ELSE Append(users, user_data)

\* mutant: a new profile is made an admin
NewUserAdmin(id_) ==
    [id |-> id_, username |-> <<>>, full_name |-> <<>>,
     admin |-> TRUE, banned |-> FALSE, messages_total |-> 0]

NewUser(id_) ==
    [id |-> id_, username |-> <<>>, full_name |-> <<>>,
     admin |-> FALSE, banned |-> FALSE, messages_total |-> 0]

\* _create_user: the new profile and the database after it is saved
_create_user(st, id_, siteSave, F) ==
    [user |-> NewUser(id_), store |-> save_user(st, NewUser(id_), siteSave, F)]

\* mutant: the profile is created anew although the id is in the database
GetUserAlwaysNew(st, id_, siteGet, siteSave, F) == _create_user(st, id_, siteSave, F)

\* get_user_by_id: the profile returned and the database afterwards
get_user_by_id(st, id_, siteGet, siteSave, F) ==
    LET users == read_users(st, siteGet, F)
        i == IndexOfId(users, id_)
    IN  IF i > 0 THEN [user |-> users[i], store |-> st]
        ELSE _create_user(st, id_, siteSave, F)

----------------------------------------------------------------------------
(* BotHandler.py: the handlers, as far as their first await *)

\* from_user.username of a chat: the account of chat 3 has no username (None)
HasUsername(chat) == chat # 3
TelegramUsername(chat) == <<"u">> \o Str(chat)
TelegramFullName(chat) == <<"N">> \o Str(chat)

\* whether update.message is set: it is for every new message and command
\* (an edited message or a channel post has none)
HasMessage == {TRUE}
\* update.message.text of the text messages that arrive
Texts == { <<"h", "i">>, <<"a", BS, "n", "b">> }
\* context.args[0] of the commands that arrive; <<>> stands for no argument
Args == { <<>>, <<"1">>, <<"2">>, <<"3">>, <<"x">>, <<"1", "x">> }

\* one awaited _send_safe(chat_id, text, context): the text as it is sent
Send(chat_id, text) == [to |-> chat_id, text |-> Expand(text)]

NoUser == NewUser(0)

\* a handler coroutine: where it is, its local user, what it still sends
\* (its _send_safe calls are its only awaits) and what it has sent
IdleTask ==
    [pc |-> "idle", kind |-> "none", user |-> NoUser, hasMsg |-> FALSE, input |-> <<>>,
     queue |-> <<>>, sent |-> <<>>, failed |-> FALSE, raised |-> FALSE, next |-> "return"]

\* the coroutine after its synchronous start: suspended in its first await,
\* or finished when it awaits nothing
Started(kind, user, hasMsg, input, queue, raised, next) ==
    [pc |-> IF queue # <<>> THEN "await" ELSE IF next = "return" THEN "done" ELSE next,
     kind |-> kind, user |-> user, hasMsg |-> hasMsg, input |-> input,
     queue |-> queue, sent |-> <<>>, failed |-> FALSE, raised |-> raised, next |-> next]

\* mutant: the banned check of the admin-only commands left out
RefusedBanIgnored(user) == ~user["admin"]

\* mutant: the admin check of the admin-only commands left out
RefusedAdminIgnored(user) == user["banned"]

\* mutant: an admin passes the gates of the admin-only commands though banned
RefusedNotAdmins(user) == ~user["admin"]

\* "Exit if banned" and "Check for admin rules" of the admin-only commands
\* (lines 224-230, 271-277, 313-319, 350-356)
Refused(user) == user["banned"] \/ ~user["admin"]

\* mutant: the limit compared with < for <=
WithinLimitStrict(user, cfg) == user["messages_total"] < cfg["user_max_messages"]

\* "Check messages limit" (line 180)
WithinLimit(user, cfg) == user["messages_total"] <= cfg["user_max_messages"]

\* mutant: the counter stops at the limit
CountedCapped(user) ==
    IF user["messages_total"] < UserMaxMessages
    THEN [user EXCEPT !["messages_total"] = @ + 1] ELSE user

\* user["messages_total"] += 1 (line 174)
Counted(user) == [user EXCEPT !["messages_total"] = @ + 1]

\* mutant: /unban bans as /ban does
WithBannedAlways(banned_user, ban) == [banned_user EXCEPT !["banned"] = TRUE]

\* banned_user["banned"] = ban (line 245)
WithBanned(banned_user, ban) == [banned_user EXCEPT !["banned"] = ban]

\* mutant: /resetmessages saves the counter as it was
WithCounterKept(reset_user) == reset_user

\* reset_user["messages_total"] = 0 (line 292)
WithCounterReset(reset_user) == [reset_user EXCEPT !["messages_total"] = 0]

\* _user_check_get: the user returned, the database afterwards, the banned notice
_user_check_get(st, cfg, chat_id, hasMsg, F) ==
    LET g == get_user_by_id(st, chat_id, SiteGetSender, SiteNewSender, F)
        setU == hasMsg /\ HasUsername(chat_id)
        u1 == IF setU THEN [g.user EXCEPT !["username"] = TelegramUsername(chat_id)]
              ELSE g.user
        s1 == IF setU THEN save_user(g.store, u1, SiteSaveUsername, F) ELSE g.store
        u2 == IF hasMsg THEN [u1 EXCEPT !["full_name"] = TelegramFullName(chat_id)] ELSE u1
        s2 == IF hasMsg THEN save_user(s1, u2, SiteSaveFullName, F) ELSE s1
        banned_message == Strip(cfg["banned_message"])
    IN  [user |-> u2, store |-> s2,
         sends |-> IF u2["banned"] /\ Len(banned_message) > 0
                   THEN <<Send(chat_id, banned_message)>> ELSE <<>>]

\* "{0} (@{1}) ({2})\n\n".format(full_name, username, id) + message_text
RelayText(user, message_text) ==
    user["full_name"] \o <<" ", "(", "@">> \o user["username"] \o <<")", " ", "(">>
        \o Str(user["id"]) \o <<")", LF, LF>> \o message_text

\* mutant: the broadcast loop passes over the admins who are banned
RECURSIVE BroadcastSkipsBanned(_, _)
BroadcastSkipsBanned(users, message_text) ==
    IF users = <<>> THEN <<>>
    ELSE (IF Head(users)["admin"] /\ ~Head(users)["banned"]
          THEN <<Send(Head(users)["id"], message_text)>> ELSE <<>>)
            \o BroadcastSkipsBanned(Tail(users), message_text)

\* the broadcast loop: one send per record of users with admin set, in list order
RECURSIVE Broadcast(_, _)
Broadcast(users, message_text) ==
    IF users = <<>> THEN <<>>
    ELSE (IF Head(users)["admin"] THEN <<Send(Head(users)["id"], message_text)>> ELSE <<>>)
            \o Broadcast(Tail(users), message_text)

\* bot_message
bot_message(st, cfg, chat_id, hasMsg, text, F) ==
    LET p == _user_check_get(st, cfg, chat_id, hasMsg, F)
        user == Counted(p.user)
        saved == save_user(p.store, user, SiteSaveCounter, F)
        users == read_users(saved, SiteList, F)
    IN  IF p.user["banned"] \/ p.user["admin"]
        THEN [store |-> p.store,
              task |-> Started("message", p.user, hasMsg, text, p.sends, FALSE, "return")]
        ELSE IF WithinLimit(user, cfg)
        THEN IF hasMsg
             THEN [store |-> saved,
                   task |-> Started("message", user, hasMsg, text,
                                Broadcast(users, RelayText(user, text))
                                    \o <<Send(user["id"], cfg["confirmation_message"])>>,
                                FALSE, "return")]
             \* update.message is None: update.message.text raises (line 182)
             ELSE [store |-> saved,
                   task |-> Started("message", user, hasMsg, text, <<>>, TRUE, "return")]
        ELSE [store |-> saved,
              task |-> Started("message", user, hasMsg, text, <<>>, FALSE, "return")]

\* str(e) of the ValueError that int() raises
ParseError(arg) == <<"invalid literal for int(): ">> \o Strip(arg)

\* bot_command_ban_unban
bot_command_ban_unban(ban, st, cfg, chat_id, hasMsg, arg, F) ==
    LET kind == IF ban THEN "ban" ELSE "unban"
        p == _user_check_get(st, cfg, chat_id, hasMsg, F)
        ban_user_id == ParseInt(arg)
        g == get_user_by_id(p.store, ban_user_id.val, SiteGetTarget, SiteNewTarget, F)
        banned_user == WithBanned(g.user, ban)
        saved == save_user(g.store, banned_user, SiteSaveTarget, F)
    IN  IF Refused(p.user) \/ arg = <<>>
        THEN [store |-> p.store,
              task |-> Started(kind, p.user, hasMsg, arg, p.sends, FALSE, "return")]
        ELSE IF ~ban_user_id.ok
        THEN [store |-> p.store,
              task |-> Started(kind, p.user, hasMsg, arg,
                               <<Send(p.user["id"], ParseError(arg))>>, FALSE, "return")]
        ELSE [store |-> saved,
              task |-> Started(kind, p.user, hasMsg, arg,
                               <<Send(p.user["id"],
                                      IF ban THEN cfg["ban_confirmation_message"]
                                      ELSE cfg["unban_confirmation_message"])>>,
                               FALSE, "return")]

\* bot_command_resetmessages
bot_command_resetmessages(st, cfg, chat_id, hasMsg, arg, F) ==
    LET p == _user_check_get(st, cfg, chat_id, hasMsg, F)
        reset_user_id == ParseInt(arg)
        g == get_user_by_id(p.store, reset_user_id.val, SiteGetTarget, SiteNewTarget, F)
        reset_user == WithCounterReset(g.user)
        saved == save_user(g.store, reset_user, SiteSaveTarget, F)
    IN  IF Refused(p.user) \/ arg = <<>>
        THEN [store |-> p.store,
              task |-> Started("resetmessages", p.user, hasMsg, arg, p.sends, FALSE, "return")]
        ELSE IF ~reset_user_id.ok
        THEN [store |-> p.store,
              task |-> Started("resetmessages", p.user, hasMsg, arg,
                               <<Send(p.user["id"], ParseError(arg))>>, FALSE, "return")]
        ELSE [store |-> saved,
              task |-> Started("resetmessages", p.user, hasMsg, arg,
                               <<Send(p.user["id"], cfg["resetmessages_confirmation_message"])>>,
                               FALSE, "return")]

\* str(True), str(False)
StrBool(b) == IF b THEN <<"True">> ELSE <<"False">>

\* the rows of the /users listing
RECURSIVE UsersRows(_)
UsersRows(users) ==
    IF users = <<>> THEN <<>>
    ELSE LET user_info == Head(users)
         IN  Str(user_info["id"]) \o <<TAB, "@">> \o user_info["username"] \o <<TAB>>
                \o user_info["full_name"] \o <<TAB>> \o StrBool(user_info["admin"]) \o <<TAB>>
                \o StrBool(user_info["banned"]) \o <<TAB>>
                \o Str(user_info["messages_total"]) \o <<LF>> \o UsersRows(Tail(users))

UsersHeader == <<"id", TAB, "Username", TAB, "Full name", TAB, "Admin?", TAB, "Banned?",
                 TAB, "Total messages", LF, LF>>

\* bot_command_users
bot_command_users(st, cfg, chat_id, hasMsg, F) ==
    LET p == _user_check_get(st, cfg, chat_id, hasMsg, F)
        users == read_users(p.store, SiteList, F)
    IN  IF Refused(p.user)
        THEN [store |-> p.store,
              task |-> Started("users", p.user, hasMsg, <<>>, p.sends, FALSE, "return")]
        ELSE [store |-> p.store,
              task |-> Started("users", p.user, hasMsg, <<>>,
                               <<Send(p.user["id"], UsersHeader \o UsersRows(users))>>,
                               FALSE, "return")]

\* bot_command_restart, as far as the await of the start notice
bot_command_restart(st, cfg, chat_id, hasMsg, F) ==
    LET p == _user_check_get(st, cfg, chat_id, hasMsg, F)
    IN  IF Refused(p.user)
        THEN [store |-> p.store,
              task |-> Started("restart", p.user, hasMsg, <<>>, p.sends, FALSE, "return")]
        ELSE [store |-> p.store,
              task |-> Started("restart", p.user, hasMsg, <<>>,
                               <<Send(p.user["id"], cfg["restart_message_start"])>>,
                               FALSE, "restart")]

\* mutant: /chatid leaves without an answer when the sender is banned
ChatidGated(st, cfg, chat_id, hasMsg, F) ==
    LET p == _user_check_get(st, cfg, chat_id, hasMsg, F)
    IN  [store |-> p.store,
         task |-> Started("chatid", p.user, hasMsg, <<>>,
                          IF p.user["banned"] THEN p.sends
                          ELSE <<Send(p.user["id"], Str(p.user["id"]))>>,
                          FALSE, "return")]

\* bot_command_chatid
bot_command_chatid(st, cfg, chat_id, hasMsg, F) ==
    LET p == _user_check_get(st, cfg, chat_id, hasMsg, F)
    IN  [store |-> p.store,
         task |-> Started("chatid", p.user, hasMsg, <<>>,
                          p.sends \o <<Send(p.user["id"], Str(p.user["id"]))>>,
                          FALSE, "return")]

\* bot_command_start
bot_command_start(st, cfg, chat_id, hasMsg, F) ==
    LET p == _user_check_get(st, cfg, chat_id, hasMsg, F)
    IN  IF p.user["banned"]
        THEN [store |-> p.store,
              task |-> Started("start", p.user, hasMsg, <<>>, p.sends, FALSE, "return")]
        ELSE [store |-> p.store,
              task |-> Started("start", p.user, hasMsg, <<>>,
                               <<Send(p.user["id"],
                                      IF p.user["admin"] THEN cfg["admin_message"]
                                      ELSE cfg["form_message"])>>,
                               FALSE, "return")]

----------------------------------------------------------------------------
(* The state machine *)

\* the databases the bot is started on: none yet, or one where the admins
\* were set by hand in the file
InitStores ==
    { <<>>,
      <<[NewUser(1) EXCEPT !["admin"] = TRUE]>>,
      <<[NewUser(1) EXCEPT !["admin"] = TRUE], [NewUser(2) EXCEPT !["admin"] = TRUE]>> }

\* config.json: the messages are opaque but for banned_message, which may be blank
Configs ==
    { [user_max_messages |-> UserMaxMessages,
       banned_message |-> b,
       confirmation_message |-> <<"{confirmation}">>,
       ban_confirmation_message |-> <<"{ban_confirmation}">>,
       unban_confirmation_message |-> <<"{unban_confirmation}">>,
       resetmessages_confirmation_message |-> <<"{resetmessages_confirmation}">>,
       admin_message |-> <<"{admin}">>,
       form_message |-> <<"{form}">>,
       restart_message_start |-> <<"{restart_start}">>,
       restart_message_done |-> <<"{restart_done}", BS, "n">>]
      : b \in { <<" ">>, <<"{banned}", " ">> } }

NoThread == [pc |-> "none", chat |-> 0, live |-> FALSE]

Init ==
    /\ store \in InitStores
    /\ config \in Configs
    /\ tasks = [t \in TaskIds |-> IdleTask]
    /\ sup = "connecting"
    /\ flag = FALSE
    /\ stopping = FALSE
    /\ threads = [th \in ThreadIds |-> NoThread]
    /\ caught = "none"

\* messages_total of the stored profile of a chat, 0 when there is none
StoredCount(id) ==
    LET i == IndexOfId(store, id) IN IF i > 0 THEN store[i]["messages_total"] ELSE 0

\* the running loop hands an update to a handler in a free slot
CanDispatch(t) == sup = "polling" /\ ~stopping /\ tasks[t].pc = "idle"

FreeThreads == {th \in ThreadIds : threads[th].pc = "none"}
RestartsInFlight == {t \in TaskIds : tasks[t].next = "restart" /\ tasks[t].pc # "done"}

\* a handler runs from its start to its first await
Run(t, r) ==
    /\ store' = r.store
    /\ tasks' = [tasks EXCEPT ![t] = r.task]
    /\ UNCHANGED <<config, sup, flag, stopping, threads, caught>>

BotMessage(t, F, In) ==
    \E chat \in In.chats, hasMsg \in HasMessage, text \in In.texts :
        /\ CanDispatch(t)
        /\ StoredCount(chat) < MaxCount
        /\ Run(t, bot_message(store, config, chat, hasMsg, text, F))

BotCommandBan(t, F, In) ==
    \E chat \in In.chats, hasMsg \in HasMessage, arg \in In.args :
        /\ CanDispatch(t)
        /\ Run(t, bot_command_ban_unban(TRUE, store, config, chat, hasMsg, arg, F))

BotCommandUnban(t, F, In) ==
    \E chat \in In.chats, hasMsg \in HasMessage, arg \in In.args :
        /\ CanDispatch(t)
        /\ Run(t, bot_command_ban_unban(FALSE, store, config, chat, hasMsg, arg, F))

BotCommandResetmessages(t, F, In) ==
    \E chat \in In.chats, hasMsg \in HasMessage, arg \in In.args :
        /\ CanDispatch(t)
        /\ Run(t, bot_command_resetmessages(store, config, chat, hasMsg, arg, F))

BotCommandUsers(t, F, In) ==
    \E chat \in In.chats, hasMsg \in HasMessage :
        /\ CanDispatch(t)
        /\ Run(t, bot_command_users(store, config, chat, hasMsg, F))

BotCommandRestart(t, F, In) ==
    \E chat \in In.chats, hasMsg \in HasMessage :
        /\ CanDispatch(t)
        /\ Cardinality(RestartsInFlight) < Cardinality(FreeThreads)
        /\ Run(t, bot_command_restart(store, config, chat, hasMsg, F))

BotCommandChatid(t, F, In) ==
    \E chat \in In.chats, hasMsg \in HasMessage :
        /\ CanDispatch(t)
        /\ Run(t, bot_command_chatid(store, config, chat, hasMsg, F))

BotCommandStart(t, F, In) ==
    \E chat \in In.chats, hasMsg \in HasMessage :
        /\ CanDispatch(t)
        /\ Run(t, bot_command_start(store, config, chat, hasMsg, F))

\* mutant: a send that raises ends the handler with the error
AfterSendAborts(task, ok) ==
    IF ok
    THEN [task EXCEPT !.queue = Tail(@),
                      !.sent = Append(@, Head(task.queue)),
                      !.pc = IF Len(task.queue) > 1 THEN "await"
                             ELSE IF task.next = "return" THEN "done" ELSE task.next]
    ELSE [task EXCEPT !.queue = <<>>,
                      !.sent = Append(@, Head(task.queue)),
                      !.failed = TRUE, !.raised = TRUE, !.pc = "done"]

\* the coroutine after the send it awaited: at its next await, or past its last
AfterSend(task, ok) ==
    [task EXCEPT !.queue = Tail(@),
                 !.sent = Append(@, Head(task.queue)),
                 !.failed = @ \/ ~ok,
                 !.pc = IF Len(task.queue) > 1 THEN "await"
                        ELSE IF task.next = "return" THEN "done" ELSE task.next]

\* _send_safe: the send is made; it succeeds, or raises and is logged
SendSafe(t) ==
    \E ok \in BOOLEAN :
        /\ sup = "polling"
        /\ tasks[t].pc = "await"
        /\ tasks' = [tasks EXCEPT ![t] = AfterSend(tasks[t], ok)]
        /\ UNCHANGED <<store, config, sup, flag, stopping, threads, caught>>

\* bot_command_restart after the start notice (lines 362-384): the flag, the
\* loop stopped, the thread started
RestartRequested(t) ==
    /\ sup = "polling"
    /\ tasks[t].pc = "restart"
    /\ FreeThreads # {}
    /\ flag' = TRUE
    /\ stopping' = TRUE
    /\ threads' = [threads EXCEPT ![CHOOSE th \in FreeThreads : TRUE] =
                        [pc |-> "wait", chat |-> tasks[t].user["id"],
                         live |-> FALSE]]
    /\ tasks' = [tasks EXCEPT ![t].pc = "done"]
    /\ UNCHANGED <<store, config, sup, caught>>

\* the handler returned to the dispatcher
HandlerReturn(t) ==
    /\ tasks[t].pc = "done"
    /\ tasks' = [tasks EXCEPT ![t] = IdleTask]
    /\ UNCHANGED <<store, config, sup, flag, stopping, threads, caught>>

\* lines 81-119: the form is read, the application built, polling started
Connect ==
    /\ sup = "connecting"
    /\ sup' = "polling"
    /\ stopping' = FALSE
    /\ threads' = [th \in ThreadIds |->
                      IF threads[th].pc \in {"wait", "send"}
                      THEN [threads[th] EXCEPT !.live = TRUE] ELSE threads[th]]
    /\ UNCHANGED <<store, config, tasks, flag, caught>>

\* mutant: KeyboardInterrupt is handled as any other exception
AfterExceptionRetries(e) == IF ~flag THEN "delay" ELSE "restarting"

\* mutant: the delay is waited whether or not a restart was requested
AfterExceptionDelays(e) ==
    CASE e = "KeyboardInterrupt" -> "stopped"
      [] e = "Event loop is closed" -> IF ~flag THEN "stopped" ELSE "delay"
      [] OTHER -> "delay"

\* where start_bot goes from its except clauses (lines 122-136)
AfterException(e) ==
    CASE e = "KeyboardInterrupt" -> "stopped"
      [] e = "Event loop is closed" -> IF ~flag THEN "stopped" ELSE "restarting"
      [] OTHER -> IF ~flag THEN "delay" ELSE "restarting"

Exceptions == {"KeyboardInterrupt", "Event loop is closed", "Exception"}

\* an exception while the connection is being built: the form file cannot be
\* read, the builder raises, or the operator interrupts (no loop runs yet)
ConnectRaises ==
    \E e \in {"KeyboardInterrupt", "Exception"} :
        /\ sup = "connecting"
        /\ sup' = AfterException(e)
        /\ caught' = e
        /\ UNCHANGED <<store, config, tasks, flag, stopping, threads>>

\* run_until_complete raises: the loop was stopped, or the transport failed, or
\* the operator interrupted; the coroutines of the old loop are never resumed
PollingRaises ==
    \E e \in Exceptions :
        /\ sup = "polling"
        /\ sup' = AfterException(e)
        /\ caught' = e
        /\ stopping' = FALSE
        /\ tasks' = [t \in TaskIds |-> IdleTask]
        /\ UNCHANGED <<store, config, flag, threads>>

\* time.sleep(RESTART_ON_ERROR_DELAY) returns
DelayElapsed ==
    /\ sup = "delay"
    /\ sup' = "restarting"
    /\ UNCHANGED <<store, config, tasks, flag, stopping, threads, caught>>

\* KeyboardInterrupt during the sleep (lines 141-143)
DelayInterrupted ==
    /\ sup = "delay"
    /\ sup' = "stopped"
    /\ caught' = "KeyboardInterrupt"
    /\ UNCHANGED <<store, config, tasks, flag, stopping, threads>>

\* lines 146-147: the flag is cleared and the loop goes round
RestartPolling ==
    /\ sup = "restarting"
    /\ flag' = FALSE
    /\ sup' = "connecting"
    /\ caught' = "none"
    /\ UNCHANGED <<store, config, tasks, stopping, threads>>

\* send_message_after_restart leaves its while loop: it read the flag as False
ThreadSeesFlagClear(th) ==
    /\ threads[th].pc = "wait"
    /\ ~flag
    /\ threads' = [threads EXCEPT ![th].pc = "send"]
    /\ UNCHANGED <<store, config, tasks, sup, flag, stopping, caught>>

\* the text of the done notice: restart_message_done.replace("\\n", "\n")
DoneNotice(cfg, chat) ==
    [to |-> chat, text |-> Replace2(cfg["restart_message_done"], BS, "n", LF)]

\* the done notice is sent with a Bot of its own (lines 377-382): the send
\* returns or raises and is logged, and the thread ends either way
ThreadSendsDone(th) ==
    /\ threads[th].pc = "send"
    /\ threads' = [threads EXCEPT ![th] = NoThread]
    /\ UNCHANGED <<store, config, tasks, sup, flag, stopping, caught>>

NoFault == {{}}

\* the updates that arrive: their chats, message texts and command arguments
AllInputs == [chats |-> Ids, texts |-> Texts, args |-> Args]

\* the handlers that write more than the sender's names to the database
Writers(T, FS, In) ==
    \E t \in T, F \in FS :
        \/ BotMessage(t, F, In)
        \/ BotCommandBan(t, F, In)
        \/ BotCommandUnban(t, F, In)
        \/ BotCommandResetmessages(t, F, In)

\* the handlers that only reply
Repliers(T, FS, In) ==
    \E t \in T, F \in FS :
        \/ BotCommandUsers(t, F, In)
        \/ BotCommandRestart(t, F, In)
        \/ BotCommandChatid(t, F, In)
        \/ BotCommandStart(t, F, In)

Coroutines ==
    \E t \in TaskIds :
        \/ SendSafe(t)
        \/ RestartRequested(t)
        \/ HandlerReturn(t)

Supervisor ==
    \/ Connect
    \/ ConnectRaises
    \/ PollingRaises
    \/ DelayElapsed
    \/ DelayInterrupted
    \/ RestartPolling

Threads ==
    \E th \in ThreadIds :
        \/ ThreadSeesFlagClear(th)
        \/ ThreadSendsDone(th)

\* The application is built without concurrent_updates (lines 87-90): the
\* dispatcher awaits one handler before it starts the next, and every read of
\* the database succeeds.
Next ==
    \/ Writers({1}, NoFault, AllInputs)
    \/ Repliers({1}, NoFault, AllInputs)
    \/ Coroutines
    \/ Supervisor
    \/ Threads

Spec == Init /\ [][Next]_vars

\* Concurrent dispatch: a handler is started while another is suspended in an
\* await, so their steps interleave at the awaits.
ConcInputs == [chats |-> Ids, texts |-> {<<"h", "i">>}, args |-> {<<"3">>}]

InitConc ==
    /\ Init
    /\ Len(store) = 1
    /\ Strip(config["banned_message"]) # <<>>

NextConc ==
    \/ Writers(TaskIds, NoFault, ConcInputs)
    \/ \E t \in TaskIds : SendSafe(t) \/ HandlerReturn(t)
    \/ Supervisor

SpecConc == InitConc /\ [][NextConc]_vars

\* at most one read of the database fails in a handler, or all of them do
FaultSets == {{}} \cup {{site} : site \in Sites} \cup {Sites}

FaultInputs == [chats |-> Ids, texts |-> {<<"h", "i">>}, args |-> {<<"2">>, <<"3">>}]

\* Sequential dispatch, with reads of the database that fail
NextFault ==
    \/ Writers({1}, FaultSets, FaultInputs)
    \/ \E t \in TaskIds : SendSafe(t) \/ HandlerReturn(t)
    \/ Supervisor

SpecFault == InitConc /\ [][NextFault]_vars

\* The restart with its scheduling: a coroutine that can be resumed is
\* resumed, a started thread runs, and start_bot goes on from the end of its
\* delay, from the end of a round of its loop and from a built connection.
\* Updates, exceptions and interrupts come as they please.
NextLive ==
    \/ Repliers({1}, NoFault, AllInputs)
    \/ Coroutines
    \/ Supervisor
    \/ Threads

Fairness ==
    /\ WF_vars(Coroutines)
    /\ WF_vars(Threads)
    /\ WF_vars(RestartPolling)
    /\ WF_vars(DelayElapsed)
    /\ WF_vars(Connect)
    \* run_until_complete returns or raises once the loop was stopped
    /\ WF_vars(stopping /\ PollingRaises)

SpecLive == Init /\ [][NextLive]_vars /\ Fairness

----------------------------------------------------------------------------
(* What the claims speak of *)

IdsOf(st) == {st[i]["id"] : i \in 1..Len(st)}
AdminIdsOf(st) == {st[i]["id"] : i \in {j \in 1..Len(st) : st[j]["admin"]}}
ProfileOf(st, id) == st[IndexOfId(st, id)]
BannedOf(st, id) == IF id \in IdsOf(st) THEN ProfileOf(st, id)["banned"] ELSE FALSE
CountOf(st, id) == IF id \in IdsOf(st) THEN ProfileOf(st, id)["messages_total"] ELSE 0
AdminOf(st, id) == IF id \in IdsOf(st) THEN ProfileOf(st, id)["admin"] ELSE FALSE

\* the step in which the dispatcher starts a handler in slot t
Dispatched(t) == tasks[t].pc = "idle" /\ tasks'[t].pc # "idle"

\* the banned notice as the configuration words it
NoticeTo(chat) ==
    IF config["banned_message"] = <<"{banned}", " ">>
    THEN <<[to |-> chat, text |-> <<"{banned}">>]>> ELSE <<>>

\* a text message of a user who is neither admin nor banned
TextFromUser(tk) ==
    tk.kind = "message" /\ tk.hasMsg /\ ~tk.user["admin"] /\ ~tk.user["banned"]

Recipients(msgs) == {msgs[i].to : i \in 1..Len(msgs)}

\* C1: the text message that brings a user's counter to k is sent to the
\* admins and confirmed to the sender when k <= M, and when k > M nothing at
\* all is sent; k is the number the database then holds for the user.
QuotaBoundary ==
    \A t \in TaskIds :
        LET tk == tasks[t]
            k == tk.user["messages_total"]
            n == Len(tk.sent)
        IN  (tk.pc = "done" /\ TextFromUser(tk)) =>
                /\ k = CountOf(store, tk.user["id"])
                /\ k >= 1
                /\ IF k <= UserMaxMessages
                   THEN /\ n >= 1
                        /\ tk.sent[n] = [to |-> tk.user["id"], text |-> <<"{confirmation}">>]
                        /\ Recipients(SubSeq(tk.sent, 1, n - 1)) = AdminIdsOf(store)
                   ELSE n = 0

\* C1 witness: the message that makes the counter equal M was relayed
QuotaBoundaryWitness ==
    \E t \in TaskIds :
        /\ tasks[t].pc = "done" /\ TextFromUser(tasks[t])
        /\ tasks[t].user["messages_total"] = UserMaxMessages
        /\ Len(tasks[t].sent) >= 2

GatedKinds == {"message", "start", "users", "ban", "unban", "resetmessages", "restart"}

\* the counters, the banned flags and the set of profiles are the same
SameModeration(st1, st2) ==
    /\ IdsOf(st1) = IdsOf(st2)
    /\ \A id \in IdsOf(st1) :
          /\ BannedOf(st1, id) = BannedOf(st2, id)
          /\ CountOf(st1, id) = CountOf(st2, id)
          /\ AdminOf(st1, id) = AdminOf(st2, id)

BanGateDone ==
    \A t \in TaskIds :
        LET tk == tasks[t]
        IN  (tk.pc # "idle" /\ tk.kind \in GatedKinds /\ tk.user["banned"]) =>
                /\ tk.sent \o tk.queue = NoticeTo(tk.user["id"])
                /\ tk.next = "return"

BanGateStep ==
    \A t \in TaskIds :
        /\ (Dispatched(t) /\ tasks'[t].kind \in GatedKinds /\ tasks'[t].user["banned"])
              => (SameModeration(store, store') /\ flag' = flag /\ threads' = threads)
        /\ (tasks[t].pc # "idle" /\ tasks[t].kind \in GatedKinds /\ tasks[t].user["banned"])
              => (store' = store /\ flag' = flag)

\* C2: a handler other than /chatid, run for a sender whose profile is banned,
\* sends the banned notice to the sender and nothing else (nothing at all when
\* the configured notice is blank), changes no counter and no banned flag and
\* does not request a restart.
BanGate == []BanGateDone /\ [][BanGateStep]_vars

\* C2 witness: a banned admin's /restart has ended with the notice alone
BanGateWitness ==
    \E t \in TaskIds :
        /\ tasks[t].pc = "done" /\ tasks[t].kind = "restart"
        /\ tasks[t].user["banned"] /\ tasks[t].user["admin"]
        /\ Len(tasks[t].sent) = 1

ModerationKinds == {"ban", "unban", "resetmessages"}
AdminKinds == ModerationKinds \cup {"users", "restart"}

AuthorizationDone ==
    \A t \in TaskIds :
        LET tk == tasks[t]
        IN  (tk.pc # "idle" /\ tk.kind \in AdminKinds /\ ~tk.user["admin"]) =>
                /\ tk.sent \o tk.queue = (IF tk.user["banned"] THEN NoticeTo(tk.user["id"]) ELSE <<>>)
                /\ tk.next = "return"

AuthorizationStep ==
    \A t \in TaskIds :
        /\ (/\ Dispatched(t) /\ tasks'[t].kind \in ModerationKinds
            /\ \E id \in IdsOf(store') :
                  \/ BannedOf(store', id) # BannedOf(store, id)
                  \/ CountOf(store', id) # CountOf(store, id))
              => (tasks'[t].user["admin"] /\ ~tasks'[t].user["banned"])
        /\ (Dispatched(t) /\ tasks'[t].kind \in AdminKinds /\ ~tasks'[t].user["admin"])
              => /\ IdsOf(store') = IdsOf(store) \cup {tasks'[t].user["id"]}
                 /\ \A id \in IdsOf(store') :
                       /\ BannedOf(store', id) = BannedOf(store, id)
                       /\ CountOf(store', id) = CountOf(store, id)
                       /\ AdminOf(store', id) = AdminOf(store, id)
                 /\ flag' = flag /\ threads' = threads

PrefixOf(profile) ==
    profile["full_name"] \o <<" ", "(", "@">> \o profile["username"] \o <<")", " ", "(">>
        \o Str(profile["id"]) \o <<")", LF, LF>>

\* the copies of an accepted text message go one to each admin profile and to
\* no other, and each is body(text) after the sender's prefix
BroadcastOf(tk, body) ==
    LET copies == SubSeq(tk.sent, 1, Len(tk.sent) - 1)
    IN  /\ Recipients(copies) = AdminIdsOf(store)
        /\ Len(copies) = Cardinality(AdminIdsOf(store))
        /\ \A i \in 1..Len(copies) :
              copies[i].text = PrefixOf(ProfileOf(store, tk.user["id"])) \o body

Accepted(tk) ==
    /\ tk.pc = "done" /\ TextFromUser(tk) /\ ~tk.failed
    /\ tk.user["messages_total"] <= UserMaxMessages

\* C4: an accepted text message is sent once to every admin profile and to no
\* other profile, and each copy is the message text after the sender's
\* "full_name (@username) (id)".
AdminBroadcast ==
    \A t \in TaskIds : Accepted(tasks[t]) => BroadcastOf(tasks[t], tasks[t].input)

\* what the code sends instead: the text with its "\n" and "\t" pairs replaced
AdminBroadcastExpanded ==
    \A t \in TaskIds : Accepted(tasks[t]) => BroadcastOf(tasks[t], Expand(tasks[t].input))

\* a moderation command that passed the gates with an argument int() accepts
Moderating(tk, kinds) ==
    /\ tk.kind \in kinds /\ tk.user["admin"] /\ ~tk.user["banned"]
    /\ tk.input # <<>> /\ ParseInt(tk.input).ok

TargetOf(tk) == ParseInt(tk.input).val

\* every profile but those of ids is what it was
OthersKept(ids) ==
    \A id \in (IdsOf(store) \cup IdsOf(store')) \ ids :
        /\ id \in IdsOf(store) /\ id \in IdsOf(store')
        /\ ProfileOf(store', id) = ProfileOf(store, id)

NoLostUpdateStep ==
    /\ (\A t \in TaskIds : ~Dispatched(t)) => store' = store
    /\ \A t \in TaskIds : Dispatched(t) =>
          LET tk == tasks'[t]
              me == tk.user["id"]
          IN  /\ me \in IdsOf(store')
              /\ ProfileOf(store', me)["full_name"] = TelegramFullName(me)
              /\ TextFromUser(tk) =>
                    /\ CountOf(store', me) = CountOf(store, me) + 1
                    /\ BannedOf(store', me) = BannedOf(store, me)
                    /\ OthersKept({me})
              /\ Moderating(tk, {"ban", "unban"}) =>
                    /\ TargetOf(tk) \in IdsOf(store')
                    /\ BannedOf(store', TargetOf(tk)) = (tk.kind = "ban")
                    /\ CountOf(store', TargetOf(tk)) = CountOf(store, TargetOf(tk))
                    /\ CountOf(store', me) = CountOf(store, me)
                    /\ OthersKept({me, TargetOf(tk)})
              /\ Moderating(tk, {"resetmessages"}) =>
                    /\ TargetOf(tk) \in IdsOf(store')
                    /\ CountOf(store', TargetOf(tk)) = 0
                    /\ BannedOf(store', TargetOf(tk)) = BannedOf(store, TargetOf(tk))
                    /\ BannedOf(store', me) = BannedOf(store, me)
                    /\ OthersKept({me, TargetOf(tk)})

\* C5: with handlers in flight together, every handler's save adds its own
\* change to what the database holds at that moment (the counter one more, the
\* banned flag set, the counter zero) and leaves every other field and profile
\* as the other handlers wrote it; a handler resumed after an await writes
\* nothing.
NoLostUpdates == [][NoLostUpdateStep]_vars

\* C5 witness: a /ban of user 3 was handled while a text message of user 3
\* was still being relayed, and the database holds both the count and the ban
NoLostUpdatesWitness ==
    \E t1, t2 \in TaskIds :
        /\ tasks[t1].pc = "await" /\ TextFromUser(tasks[t1]) /\ tasks[t1].user["id"] = 3
        /\ tasks[t2].pc = "await" /\ Moderating(tasks[t2], {"ban"}) /\ TargetOf(tasks[t2]) = 3
        /\ BannedOf(store, 3)
        /\ CountOf(store, 3) = tasks[t1].user["messages_total"]

\* C6: the done notice of /restart is sent only after the start notice was
\* sent to the admin, the old connection was torn down and a new connection
\* reached polling, and it goes to the admin who asked.
RestartSequencing ==
    [][/\ \A t \in TaskIds : (tasks[t].pc = "restart" /\ tasks'[t].pc = "done") =>
              /\ tasks[t].sent = <<[to |-> tasks[t].user["id"], text |-> <<"{restart_start}">>]>>
              /\ \E th \in ThreadIds :
                    /\ threads[th].pc = "none" /\ threads'[th].pc = "wait"
                    /\ threads'[th].chat = tasks[t].user["id"]
       /\ \A th \in ThreadIds : (threads[th].pc = "send" /\ threads'[th].pc = "none") =>
              threads[th].live]_vars

\* C7: no step removes a profile id from the database, also when reads of the
\* database fail and are taken for an empty list.
ProfilesNeverDeleted == [][IdsOf(store) \subseteq IdsOf(store')]_vars

\* C8: a counter goes down only in the step of a /resetmessages of an admin
\* who is not banned, naming that profile, and then it is 0.
CounterMonotonic ==
    [][\A id \in IdsOf(store) :
          CountOf(store', id) < CountOf(store, id) =>
              /\ CountOf(store', id) = 0
              /\ id \in IdsOf(store')
              /\ \E t \in TaskIds :
                    /\ Dispatched(t)
                    /\ Moderating(tasks'[t], {"resetmessages"})
                    /\ TargetOf(tasks'[t]) = id]_vars

\* C8 witness: the counter of a user who has used up the quota was reset
CounterMonotonicWitness ==
    \E t \in TaskIds :
        /\ tasks[t].pc = "done" /\ Moderating(tasks[t], {"resetmessages"})
        /\ TargetOf(tasks[t]) = 3 /\ 3 \in IdsOf(store)
        /\ ProfileOf(store, 3)["full_name"] # <<>>
        /\ CountOf(store, 3) = 0

\* C9: no two records of the database have the same id.
UniqueIds ==
    \A i, j \in 1..Len(store) : store[i]["id"] = store[j]["id"] => i = j

\* C9 witness: two profiles were added while two handlers were in flight
UniqueIdsWitness ==
    /\ Len(store) = 3
    /\ \A t \in TaskIds : tasks[t].pc = "await"

BanUnbanDone ==
    \A t \in TaskIds :
        LET tk == tasks[t]
        IN  (tk.pc = "done" /\ Moderating(tk, {"ban", "unban"})) =>
                /\ TargetOf(tk) \in IdsOf(store)
                /\ BannedOf(store, TargetOf(tk)) = (tk.kind = "ban")
                /\ tk.sent = <<[to |-> tk.user["id"],
                                text |-> IF tk.kind = "ban" THEN <<"{ban_confirmation}">>
                                         ELSE <<"{unban_confirmation}">>]>>

BanUnbanStep ==
    \A t \in TaskIds :
        (/\ Dispatched(t) /\ Moderating(tasks'[t], {"unban"})
         /\ BannedOf(store, TargetOf(tasks'[t])))
            => /\ TargetOf(tasks'[t]) \in IdsOf(store')
               /\ ~BannedOf(store', TargetOf(tasks'[t]))
               /\ CountOf(store', TargetOf(tasks'[t])) = CountOf(store, TargetOf(tasks'[t]))

\* C10: after a /ban of an admin who is not banned the target profile is in
\* the database with banned = true, after a /unban with banned = false, also
\* when the target was banned before or was not in the database, and the admin
\* is sent the ban or the unban confirmation.
BanUnbanRoundTrip == []BanUnbanDone /\ [][BanUnbanStep]_vars

\* C10 witness: user 3, whom the bot has never heard from, is in the database
\* unbanned after a /unban 3
BanUnbanWitness ==
    \E t \in TaskIds :
        /\ tasks[t].pc = "done" /\ Moderating(tasks[t], {"unban"}) /\ TargetOf(tasks[t]) = 3
        /\ 3 \in IdsOf(store) /\ ~BannedOf(store, 3)
        /\ ProfileOf(store, 3)["full_name"] = <<>>

\* an argument that is no integer: after strip() it is empty or holds a
\* character that is neither a digit nor a leading sign
NotAnInteger(arg) ==
    LET s == Strip(arg)
    IN  \/ s = <<>>
        \/ \E i \in 1..Len(s) : s[i] \notin Digits /\ ~(i = 1 /\ s[i] \in {"+", "-"})
        \/ s \in {<<"+">>, <<"-">>}

\* a moderation command of an admin who is not banned, with such an argument
BadArgument(tk) ==
    /\ tk.kind \in ModerationKinds /\ tk.user["admin"] /\ ~tk.user["banned"]
    /\ tk.input # <<>> /\ NotAnInteger(tk.input)

InvalidArgumentDone ==
    \A t \in TaskIds :
        LET tk == tasks[t]
            msgs == tk.sent \o tk.queue
        IN  (tk.pc # "idle" /\ BadArgument(tk)) =>
                /\ Len(msgs) = 1
                /\ msgs[1].to = tk.user["id"]
                /\ Head(msgs[1].text) = "invalid literal for int(): "
                /\ tk.next = "return"

InvalidArgumentStep ==
    \A t \in TaskIds :
        (Dispatched(t) /\ BadArgument(tasks'[t])) => SameModeration(store, store')

\* C11: a /ban, /unban or /resetmessages of an admin who is not banned, with an
\* argument that is no integer, sends that admin the error text of int() and
\* nothing else (no confirmation), changes no banned flag and no counter and
\* adds no profile.
InvalidArgument == []InvalidArgumentDone /\ [][InvalidArgumentStep]_vars

\* C11 witness: "/resetmessages x" of the admin was answered with the error
\* while user 3 keeps the counter the database had
InvalidArgumentWitness ==
    \E t \in TaskIds :
        /\ tasks[t].pc = "done" /\ BadArgument(tasks[t]) /\ tasks[t].kind = "resetmessages"
        /\ Len(tasks[t].sent) = 1
        /\ CountOf(store, 3) > 0

\* C12: whatever the sender's banned and admin flags are, /chatid sends the
\* sender a message whose text is the sender's id in decimal.
ChatidBypass ==
    \A t \in TaskIds :
        LET tk == tasks[t]
            msgs == tk.sent \o tk.queue
        IN  (tk.pc # "idle" /\ tk.kind = "chatid") =>
                /\ Len(msgs) >= 1
                /\ msgs[Len(msgs)] = [to |-> tk.user["id"], text |-> Str(tk.user["id"])]
                /\ tk.user["full_name"] = TelegramFullName(tk.user["id"])

\* C12 witness: a banned user who is not admin was sent the banned notice and
\* then the id
ChatidBypassWitness ==
    \E t \in TaskIds :
        /\ tasks[t].pc = "done" /\ tasks[t].kind = "chatid"
        /\ tasks[t].user["banned"] /\ ~tasks[t].user["admin"]
        /\ Len(tasks[t].sent) = 2

\* a text message that was accepted, with or without sends that failed
Relayed(tk) ==
    /\ TextFromUser(tk)
    /\ tk.user["messages_total"] <= UserMaxMessages

SendFailuresDone ==
    \A t \in TaskIds :
        LET tk == tasks[t]
        IN  (tk.pc = "done" /\ Relayed(tk)) =>
                /\ BroadcastOf(tk, Expand(tk.input))
                /\ tk.sent[Len(tk.sent)] =
                       [to |-> tk.user["id"], text |-> <<"{confirmation}">>]
                /\ ~tk.raised

SendFailuresStep ==
    \A t \in TaskIds :
        \* the coroutine is resumed after a send (not dropped with its loop)
        (tasks[t].pc = "await" /\ Relayed(tasks[t]) /\ tasks'[t].pc \in {"await", "done"}
            /\ tasks'[t] # tasks[t]) =>
            /\ store' = store
            /\ Len(tasks'[t].sent) = Len(tasks[t].sent) + 1

\* C13: when sends fail while an accepted text message is relayed, the
\* handler still attempts the send to every admin and then the confirmation
\* to the sender, ends without an error and changes nothing in the database
\* after the failure.
SendFailuresIsolated == []SendFailuresDone /\ [][SendFailuresStep]_vars

\* C13 witness: a relay to two admins ended, with a send that failed, after
\* all three sends were attempted
SendFailuresWitness ==
    \E t \in TaskIds :
        /\ tasks[t].pc = "done" /\ Relayed(tasks[t]) /\ tasks[t].failed
        /\ Len(tasks[t].sent) = 3

\* start_bot leaves its try block with an exception
Raised == sup \in {"connecting", "polling"} /\ sup' # sup /\ caught' # "none"

\* C14: start_bot stops only on an operator interrupt; after every other
\* error that ends polling while no restart is requested it waits the delay
\* (and from the delay it goes on to connect again unless interrupted).
OnlyInterruptStops ==
    [][/\ (sup # "stopped" /\ sup' = "stopped") => caught' = "KeyboardInterrupt"
       /\ (Raised /\ sup = "polling" /\ ~flag /\ caught' # "KeyboardInterrupt")
             => sup' = "delay"
       /\ (sup = "delay" /\ sup' # sup) => sup' \in {"restarting", "stopped"}]_vars

\* C15: an operator interrupt while start_bot is connecting, polling or
\* waiting the delay stops it, and once stopped it never connects again.
InterruptStops ==
    [][/\ (sup \in {"connecting", "polling", "delay"} /\ sup' # sup
              /\ caught' = "KeyboardInterrupt") => sup' = "stopped"
       /\ sup = "stopped" => sup' = "stopped"]_vars

\* C15 witness: the interrupt came during the delay after an error, with a
\* profile already added to the database
InterruptStopsWitness ==
    /\ sup = "stopped" /\ caught = "KeyboardInterrupt"
    /\ Len(store) = 3

\* C16: when polling ends because the loop was stopped for a requested
\* restart, start_bot goes on to connect without the delay and logs no error;
\* when it ends with an error and no restart is requested, it connects again
\* only after the delay.
RestartFastPath ==
    [][/\ (Raised /\ sup = "polling" /\ flag /\ caught' = "Event loop is closed")
             => sup' = "restarting"
       /\ (sup' = "restarting" /\ sup # "restarting") => (sup = "delay" \/ flag)
       /\ (sup = "delay") => ~flag
       /\ (sup' = "connecting" /\ sup # "connecting") => sup = "restarting"]_vars

\* C16 witness: the loop was closed for a restart and start_bot is about to
\* connect again
RestartFastPathWitness ==
    sup = "restarting" /\ flag /\ caught = "Event loop is closed"

\* C17: a send_message_after_restart thread that was started ends, whatever
\* start_bot does after the restart was requested.
NoticeThreadEnds ==
    \A th \in ThreadIds : (threads[th].pc = "wait") ~> (threads[th].pc = "none")

\* the same, for the restarts that no operator interrupt cuts short
NoticeThreadEndsUnlessStopped ==
    \A th \in ThreadIds :
        (threads[th].pc = "wait") ~> (threads[th].pc = "none" \/ sup = "stopped")

\* a profile as the Core creates it
IsDefault(profile) ==
    /\ ~profile["admin"] /\ ~profile["banned"] /\ profile["messages_total"] = 0
    /\ profile["username"] = <<>> /\ profile["full_name"] = <<>>

\* get_user_by_id of an id the database does not hold
CreatedDefault ==
    \A id \in Ids \ IdsOf(store) :
        LET g == get_user_by_id(store, id, SiteGetTarget, SiteNewTarget, {})
        IN  /\ IsDefault(g.user)
            /\ id \in IdsOf(g.store) /\ IsDefault(ProfileOf(g.store, id))
            /\ \A other \in IdsOf(store) : ProfileOf(g.store, other) = ProfileOf(store, other)

AdminFrameStep ==
    /\ \A id \in IdsOf(store) :
          id \in IdsOf(store') /\ AdminOf(store', id) = AdminOf(store, id)
    /\ \A id \in IdsOf(store') \ IdsOf(store) :
          \* what the handler that created the profile has written since
          /\ ~AdminOf(store', id)
          /\ BannedOf(store', id) =>
                \E t \in TaskIds : Dispatched(t) /\ Moderating(tasks'[t], {"ban"})
                                        /\ TargetOf(tasks'[t]) = id
          /\ CountOf(store', id) > 0 =>
                /\ CountOf(store', id) = 1
                /\ \E t \in TaskIds : Dispatched(t) /\ TextFromUser(tasks'[t])
                                        /\ tasks'[t].user["id"] = id

\* C18: no handler changes the admin value of a profile, and a profile the
\* bot creates has admin = false, banned = false and messages_total = 0.
AdminFrame == []CreatedDefault /\ [][AdminFrameStep]_vars

\* C18 witness: the admin's profile was written by a /ban and is still admin,
\* and the two profiles the bot created are not
AdminFrameWitness ==
    /\ Len(store) = 3
    /\ AdminOf(store, 1) /\ BannedOf(store, 1)
    /\ ~AdminOf(store, 2) /\ ~AdminOf(store, 3)

\* C19: get_user_by_id called twice for the same id, with no save_user of the
\* caller in between, returns the same field values both times, and the
\* second call leaves the database as the first left it.
GetIdempotent ==
    \A id \in Ids :
        LET g1 == get_user_by_id(store, id, SiteGetTarget, SiteNewTarget, {})
            g2 == get_user_by_id(g1.store, id, SiteGetTarget, SiteNewTarget, {})
        IN  /\ g2.user = g1.user
            /\ g2.store = g1.store
            /\ g1.user["id"] = id

\* C19 witness: a database where id 3 is absent (the first call creates it)
\* and id 2 is present with values that are not the defaults
GetIdempotentWitness ==
    /\ 3 \notin IdsOf(store)
    /\ 2 \in IdsOf(store) /\ BannedOf(store, 2) /\ CountOf(store, 2) > 0

\* C20: every text message of a user who is neither admin nor banned raises
\* the stored counter of that user by exactly 1, relayed or not, also beyond
\* the maximum.
CounterNotCapped ==
    [][\A t \in TaskIds :
          (/\ Dispatched(t) /\ tasks'[t].kind = "message"
           /\ ~AdminOf(store, tasks'[t].user["id"])
           /\ ~BannedOf(store, tasks'[t].user["id"]))
            => /\ CountOf(store', tasks'[t].user["id"])
                    = CountOf(store, tasks'[t].user["id"]) + 1
               /\ tasks'[t].user["messages_total"] = CountOf(store', tasks'[t].user["id"])]_vars

\* C20 witness: a message past the quota was counted and not relayed
CounterNotCappedWitness ==
    \E t \in TaskIds :
        /\ tasks[t].pc = "done" /\ TextFromUser(tasks[t])
        /\ tasks[t].sent = <<>>
        /\ CountOf(store, tasks[t].user["id"]) = UserMaxMessages + 1

\* n text messages of the user id handled one after the other from the
\* database st: what each handler wrote and queued
RECURSIVE RunMessages(_, _, _)
RunMessages(st, id, n) ==
    IF n = 0 THEN <<>>
    ELSE LET r == bot_message(st, config, id, TRUE, <<"h", "i">>, {})
         IN  <<r>> \o RunMessages(r.store, id, n - 1)

\* the sends of an accepted message: one per admin, then the confirmation
RelayedAndConfirmed(r, id) ==
    LET q == r.task.queue
    IN  /\ Len(q) = Cardinality(AdminIdsOf(r.store)) + 1
        /\ Recipients(SubSeq(q, 1, Len(q) - 1)) = AdminIdsOf(r.store)
        /\ q[Len(q)] = [to |-> id, text |-> <<"{confirmation}">>]

\* the users whose counter is above the maximum, the admins who may reset it
OverQuota == {id \in IdsOf(store) : CountOf(store, id) > UserMaxMessages}
ActingAdmins == {a \in IdsOf(store) : AdminOf(store, a) /\ ~BannedOf(store, a)}

\* C21: after a /resetmessages of an admin who is not banned, for a user whose
\* counter is above the maximum M, the counter is 0; if the user is not
\* banned, the user's next M text messages are each relayed and confirmed and
\* the one after them is dropped.
ResetRestoresQuota ==
    \A a \in ActingAdmins, id \in OverQuota :
        LET reset == bot_command_resetmessages(store, config, a, TRUE, Str(id), {})
            run == RunMessages(reset.store, id, UserMaxMessages + 1)
        IN  /\ CountOf(reset.store, id) = 0
            /\ reset.task.queue =
                  <<[to |-> a, text |-> <<"{resetmessages_confirmation}">>]>>
            /\ ~BannedOf(store, id) =>
                  /\ \A k \in 1..UserMaxMessages :
                        /\ RelayedAndConfirmed(run[k], id)
                        /\ CountOf(run[k].store, id) = k
                  /\ run[UserMaxMessages + 1].task.queue = <<>>
                  /\ CountOf(run[UserMaxMessages + 1].store, id) = UserMaxMessages + 1

\* C21 witness: a user who is not banned is above the maximum while an admin
\* who is not banned can reset the counter
ResetRestoresQuotaWitness ==
    \E a \in ActingAdmins, id \in OverQuota :
        /\ ~BannedOf(store, id)
        /\ sup = "polling" /\ \A t \in TaskIds : tasks[t].pc = "idle"

\* an admin-only command whose sender is an admin and banned
FromBannedAdmin(tk) ==
    tk.kind \in AdminKinds /\ tk.user["admin"] /\ tk.user["banned"]

BannedFlagsKept ==
    \A id \in IdsOf(store) \cup IdsOf(store') : BannedOf(store', id) = BannedOf(store, id)

\* C22: an admin-only command of an admin who is banned changes no flag and
\* no counter, lists nothing and requests no restart; a banned profile is
\* unbanned only by a /unban of another admin who is not banned; and when no
\* admin is left who is not banned, no banned flag changes any more.
BannedAdminLockedOut ==
    [][/\ \A t \in TaskIds :
            (Dispatched(t) /\ FromBannedAdmin(tasks'[t])) =>
                /\ SameModeration(store, store')
                /\ flag' = flag /\ threads' = threads
                /\ tasks'[t].next = "return"
                /\ tasks'[t].queue = NoticeTo(tasks'[t].user["id"])
       \* the steps that write the database
       /\ store' # store =>
            /\ \A id \in IdsOf(store) :
                  (BannedOf(store, id) /\ ~BannedOf(store', id)) =>
                      \E t \in TaskIds :
                          /\ Dispatched(t) /\ Moderating(tasks'[t], {"unban"})
                          /\ TargetOf(tasks'[t]) = id
                          /\ tasks'[t].user["id"] \in ActingAdmins \ {id}
            /\ (ActingAdmins = {}) => (BannedFlagsKept /\ ActingAdmins' = {})]_vars

\* C22 witness: the only admin has banned itself and its /unban of itself has
\* ended with the banned notice alone
BannedAdminLockedOutWitness ==
    /\ ActingAdmins = {} /\ AdminOf(store, 1) /\ BannedOf(store, 1)
    /\ \E t \in TaskIds :
          /\ tasks[t].pc = "done" /\ tasks[t].kind = "unban"
          /\ tasks[t].user["id"] = 1 /\ tasks[t].input = <<"1">>
          /\ FromBannedAdmin(tasks[t])

\* C23: an accepted text message is sent to every profile with admin set,
\* banned or not, and to no other; the confirmation to the sender follows
\* and the counter is saved, also when the database holds no admin and when
\* sends fail.
RecipientsByAdminFlag ==
    \A t \in TaskIds :
        LET tk == tasks[t]
            msgs == tk.sent \o tk.queue
            copies == SubSeq(msgs, 1, Len(msgs) - 1)
        IN  (tk.pc # "idle" /\ Relayed(tk)) =>
                /\ Len(msgs) = Cardinality(AdminIdsOf(store)) + 1
                /\ \A id \in IdsOf(store) :
                      (id \in Recipients(copies)) = ProfileOf(store, id)["admin"]
                /\ msgs[Len(msgs)] = [to |-> tk.user["id"], text |-> <<"{confirmation}">>]
                /\ CountOf(store, tk.user["id"]) = tk.user["messages_total"]
                /\ tk.user["messages_total"] >= 1
                /\ tk.pc = "done" => tk.queue = <<>>

\* C23 witness: the relay of a message went to an admin who is banned and
\* ended with the confirmation although a send failed
RecipientsByAdminFlagWitness ==
    \E t \in TaskIds :
        /\ tasks[t].pc = "done" /\ Relayed(tasks[t]) /\ tasks[t].failed
        /\ \E i \in 1..(Len(tasks[t].sent) - 1) :
              /\ AdminOf(store, tasks[t].sent[i].to)
              /\ BannedOf(store, tasks[t].sent[i].to)

\* the case of a database without an admin: the message was counted and the
\* confirmation is all that was sent
ConfirmedWithoutAdmin ==
    \E t \in TaskIds :
        /\ tasks[t].pc = "done" /\ Relayed(tasks[t])
        /\ AdminIdsOf(store) = {}
        /\ Len(tasks[t].sent) = 1

====
